---------------------------- MODULE Spec2Model ----------------------------
(***************************************************************************)
(* Model of the weight-log application: the IndexedDB record service of    *)
(* src/src/db.js and the two UI controllers that save through it, the      *)
(* handleSave controller (src/src/db.js lines 75-478, src/unnamed/part_000)*)
(* and the saveCurrent controller (src/unnamed/part_001).                  *)
(*                                                                         *)
(* Numbers are fixed-point integers in hundredths: 7000 is 70, 7530 is     *)
(* 75.3.  A JavaScript value is a tagged record: Null, Undefined, NaN,     *)
(* Num(n), the empty string EmptyStr, or Str(n), the text of a decimal     *)
(* numeral whose value is n/100 (what an <input type="number"> can hold).  *)
(***************************************************************************)
EXTENDS Integers, Sequences, FiniteSets, TLC

VARIABLES
    variant,           \* which UI controller is loaded: "handleSave" | "saveCurrent"
    store,             \* the object store 'records': a set of records
    queue,             \* pending IndexedDB requests with their continuations, in creation order
    mode,              \* STATE.mode / state.mode
    currentDate,       \* STATE.currentDate / state.currentDate
    currentRecord,     \* STATE.currentRecord / state.currentRecord
    isExistingRecord,  \* STATE.isExistingRecord
    dateInput,         \* UI.dateInput.value
    weightInput,       \* UI.weightInput.value
    calorieInput,      \* UI.calorieInput.value
    listening,         \* the event listeners are registered
    actionBtn,         \* UI.actionBtn.textContent
    timers,            \* pending setTimeout callbacks of handleSave: the text each restores
    alertMsg,          \* the alert() raised by the last step, "" when none
    reportStart,       \* UI.reportStartDate.value / UI.reportStart.value
    reportEnd,         \* UI.reportEndDate.value / UI.reportEnd.value
    reportRows,        \* the filtered, sorted records the report was last rendered from
    csvRows,           \* the CSV text the last export wrote
    graphRows,         \* the graph view as last rendered: the chart and what it was drawn from
    graphState,        \* graphState.metric, the metric tab the user chose last, and
                       \* whether the graph view is shown
    tz,                \* the browser's time zone, hours east of UTC
    puts,              \* history: per date, the records of the resolved upsertRecord calls (last two)
    race,              \* history: the last pair of saveCurrent writes that overlapped
    calorieLoaded,     \* history: the date a completed load filled the calorie input for,
                       \* NoDate once the user has edited it
    nEvents            \* number of user events so far

vars == <<variant, store, queue, mode, currentDate, currentRecord, isExistingRecord,
          dateInput, weightInput, calorieInput, listening, actionBtn, timers, alertMsg,
          reportStart, reportEnd, reportRows, csvRows, graphRows, graphState, tz,
          puts,
          race,
          calorieLoaded, nEvents>>

---------------------------------------------------------------------------
(* Bounds of the model *)

\* user events (clicks, edits, date changes) in one behaviour
MaxEvents == 4
\* IndexedDB requests pending at the same time
MaxPending == 3

---------------------------------------------------------------------------
(* JavaScript values *)

Null == [t |-> "null"]
Undefined == [t |-> "undefined"]
NaN == [t |-> "NaN"]
EmptyStr == [t |-> "empty"]
Num(n) == [t |-> "num", n |-> n]
Str(n) == [t |-> "str", n |-> n]

IsNum(v) == v.t = "num"
IsNullish(v) == v.t \in {"null", "undefined"}

\* x rounded to a multiple of 10 hundredths, halves away from zero (Number.toFixed(1))
RoundTenthsAway(n) ==
    IF n >= 0 THEN ((n + 5) \div 10) * 10 ELSE -(((-n) + 5) \div 10) * 10

\* Math.round(val * 10) / 10: halves toward +infinity
RoundTenthsUp(n) == ((n + 5) \div 10) * 10

\* the integer part, toward zero
Trunc(n) == IF n >= 0 THEN (n \div 100) * 100 ELSE -(((-n) \div 100) * 100)

\* parseFloat(x) of an input's value or of a number
parseFloat(s) == IF s.t \in {"str", "num"} THEN Num(s.n) ELSE NaN

\* parseInt(text, 10): the digits before the decimal point
parseInt(s) == IF s.t \in {"str", "num"} THEN Num(Trunc(s.n)) ELSE NaN

\* x.toFixed(1), as the text it yields
toFixed1(v) == Str(RoundTenthsAway(v.n))

\* String(x) of a number
String(v) == Str(v.n)

\* Number(x) of a number or of a numeral text
Number(v) == IF v.t \in {"num", "str"} THEN Num(v.n) ELSE NaN

\* a string used as a condition: the empty string is falsy, every other one truthy
TruthyStr(s) == s.t = "str"

safeNumber(v) ==
    IF IsNullish(v) \/ v = EmptyStr THEN Null
    ELSE IF IsNum(Number(v)) THEN Number(v) ELSE Null

---------------------------------------------------------------------------
(* Dates: an ISO-8601 date string 'YYYY-MM-DD' is the triple <<y, m, d>> *)

\* the day the application runs on, and the dates the user picks in the date input
Today == <<2024, 1, 1>>
AppDates == {<<2023, 12, 31>>, <<2024, 1, 1>>}
\* the dates records are stored under when the range query is exercised
Dates == {<<2023, 12, 31>>, <<2024, 1, 1>>, <<2024, 1, 2>>}

\* the value of a date input that holds no date
NoDate == <<>>

\* a <= b for two date strings: code-unit order of the zero-padded fields
StrLE(a, b) ==
    \/ a[1] < b[1]
    \/ a[1] = b[1] /\ a[2] < b[2]
    \/ a[1] = b[1] /\ a[2] = b[2] /\ a[3] <= b[3]

IsLeap(y) == (y % 4 = 0 /\ y % 100 # 0) \/ y % 400 = 0

DaysInMonth(y, m) ==
    IF m = 2 THEN (IF IsLeap(y) THEN 29 ELSE 28)
    ELSE IF m \in {4, 6, 9, 11} THEN 30 ELSE 31

RECURSIVE DaysBeforeMonth(_, _)
DaysBeforeMonth(y, m) == IF m = 1 THEN 0 ELSE DaysBeforeMonth(y, m - 1) + DaysInMonth(y, m - 1)

\* days from 2000-01-01 to the first day of year y (y >= 2000)
RECURSIVE DaysBeforeYear(_)
DaysBeforeYear(y) ==
    IF y = 2000 THEN 0 ELSE DaysBeforeYear(y - 1) + (IF IsLeap(y - 1) THEN 366 ELSE 365)

\* new Date('YYYY-MM-DD').getTime(), in hours since 2000-01-01T00:00Z: a date-only
\* string is midnight UTC
DateUTC(d) == (DaysBeforeYear(d[1]) + DaysBeforeMonth(d[1], d[2]) + (d[3] - 1)) * 24

\* d.setHours(0, 0, 0, 0): midnight, local time, of the local day the instant falls on
setHoursZero(t, off) == ((t + off) \div 24) * 24 - off

\* x ?? null
orNull(v) == IF IsNullish(v) THEN Null ELSE v

---------------------------------------------------------------------------
(* The record service, src/src/db.js *)

Rec(d, w, c) == [date |-> d, weight |-> w, total_calorie |-> c]

Has(st, d) == \E r \in st : r.date = d

\* store.get(date): the record under the key, undefined when there is none
StoreGet(st, d) == IF Has(st, d) THEN CHOOSE r \in st : r.date = d ELSE Undefined

\* for comparison: a store without a key path, which keeps every record put
PutNoKey(st, r) == st \cup {r}

\* for comparison: a put that clears the store first
PutClearAll(st, r) == {r}

\* for comparison: a put that keeps the old value of a field the record has as null
PutMerge(st, r) ==
    LET old == StoreGet(st, r.date)
        w == IF r.weight = Null /\ old # Undefined THEN old.weight ELSE r.weight
        c == IF r.total_calorie = Null /\ old # Undefined THEN old.total_calorie
             ELSE r.total_calorie
    IN  {x \in st : x.date # r.date} \cup {Rec(r.date, w, c)}

\* store.put(record) on a store with keyPath 'date'
StorePut(st, r) == {x \in st : x.date # r.date} \cup {r}

\* for comparison: a lookup that ignores the key and yields any stored record
getRecordAny(st, d) == IF st = {} THEN Null ELSE CHOOSE r \in st : TRUE

\* getRecord resolves to request.result || null
getRecordResult(st, d) == IF StoreGet(st, d) = Undefined THEN Null ELSE StoreGet(st, d)

Stored(d) == getRecordResult(store, d)

\* the weight and the total_calorie stored under d in st, null when there is none
WeightIn(st, d) ==
    IF getRecordResult(st, d) = Null THEN Null ELSE orNull(getRecordResult(st, d).weight)

CalorieIn(st, d) ==
    IF getRecordResult(st, d) = Null THEN Null
    ELSE orNull(getRecordResult(st, d).total_calorie)


---------------------------------------------------------------------------
(* Pending IndexedDB requests.  A request is [op, date, rec, k, loc]: the     *)
(* operation (get | put | getAll), its key or record, and the continuation k  *)
(* of the async function awaiting it with that function's locals loc.         *)

Req(op, d, r, k, loc) == [op |-> op, date |-> d, rec |-> r, k |-> k, loc |-> loc]

NoLoc == [none |-> TRUE]

Remove(q, i) == SubSeq(q, 1, i - 1) \o SubSeq(q, i + 1, Len(q))

\* Transactions on the one object store run in creation order, except that
\* read-only transactions do not wait for each other.
CanComplete(q, i) ==
    /\ i \in 1..Len(q)
    /\ \A j \in 1..(i - 1) : q[j].op # "put" /\ q[i].op # "put"

Room == Len(queue) < MaxPending

UserEvent == listening /\ nEvents < MaxEvents

Bool(b) == [t |-> "bool", b |-> b]

\* the history of writes to the date of r, after r is written
Remember(h, r) ==
    [h EXCEPT ![r.date] = IF Len(@) < 2 THEN Append(@, r) ELSE <<@[2], r>>]

UNCHANGED_Report ==
    UNCHANGED <<reportStart, reportEnd, reportRows, csvRows, graphRows, graphState>>
UNCHANGED_Env == UNCHANGED <<variant, tz>>
UNCHANGED_Ghost == UNCHANGED <<race, calorieLoaded>>

---------------------------------------------------------------------------
(* The handleSave controller: src/src/db.js lines 75-478, and the same code  *)
(* in src/unnamed/part_000                                                    *)

\* updateUI's text of the action button: '体重を記録' in morning mode,
\* '1日の記録を確定' in night mode
defaultLabelH(m) == IF m = "morning" THEN "label-morning" ELSE "label-night"

\* handleSave's message: '同じ日付の記録を更新しました' when STATE.isExistingRecord is
\* truthy, else '体重を保存しました' or '1日の総カロリーを保存しました'
saveMessage(existing, isMorning) ==
    IF existing = Bool(TRUE) THEN "saved-update"
    ELSE IF isMorning THEN "saved-weight" ELSE "saved-calorie"

\* handleDateChange: the date input changed to d
handleDateChange(d) ==
    /\ variant = "handleSave" /\ UserEvent /\ Room
    /\ currentDate' = d
    /\ dateInput' = d
    /\ queue' = Append(queue, Req("get", d, Null, "loadDataForDate", [init |-> FALSE]))
    /\ alertMsg' = ""
    /\ nEvents' = nEvents + 1
    /\ UNCHANGED <<store, mode, currentRecord, isExistingRecord, weightInput,
                   calorieInput, listening, actionBtn, timers, puts>>
    /\ UNCHANGED_Report /\ UNCHANGED_Env /\ UNCHANGED_Ghost

\* loadDataForDate after await getRecord(date): the record, or a shell, into STATE
\* and the inputs
loadDataWeightText(rec) ==
    IF ~IsNullish(rec.weight) THEN toFixed1(Number(rec.weight)) ELSE EmptyStr

\* UI.calorieInput.value = total_calorie || ''
loadDataCalorieText(rec) ==
    IF IsNum(rec.total_calorie) /\ rec.total_calorie.n # 0
    THEN String(rec.total_calorie) ELSE EmptyStr

loadDataResolved(q) ==
    LET record == getRecordResult(store, q.date)
        cur == IF record # Null THEN record ELSE Rec(q.date, Null, Null)
    IN  /\ currentRecord' = cur
        /\ isExistingRecord' = Bool(record # Null)
        /\ weightInput' = loadDataWeightText(cur)
        /\ calorieInput' = loadDataCalorieText(cur)
        /\ alertMsg' = ""
        \* init calls updateUI() after its await loadDataForDate
        /\ actionBtn' = IF q.loc.init THEN defaultLabelH(mode) ELSE actionBtn
        /\ UNCHANGED <<store, mode, currentDate, dateInput, listening, timers, puts>>
        /\ UNCHANGED_Report

loadDataRejected(q) ==
    /\ alertMsg' = "load-failed"
    /\ actionBtn' = IF q.loc.init THEN defaultLabelH(mode) ELSE actionBtn
    /\ UNCHANGED <<store, mode, currentDate, currentRecord, isExistingRecord, dateInput,
                   weightInput, calorieInput, listening, timers, puts>>
    /\ UNCHANGED_Report

\* switchMode(m) and updateUI
switchModeH(m) ==
    /\ variant = "handleSave" /\ UserEvent
    /\ mode' = m
    /\ actionBtn' = defaultLabelH(m)
    /\ alertMsg' = ""
    /\ nEvents' = nEvents + 1
    /\ UNCHANGED <<store, queue, currentDate, currentRecord, isExistingRecord, dateInput,
                   weightInput, calorieInput, listening, timers, puts>>
    /\ UNCHANGED_Report /\ UNCHANGED_Env /\ UNCHANGED_Ghost

\* for comparison: a validation that lets the weight 0 through
weightInvalidLax(weightVal) == weightVal = NaN \/ weightVal.n < 0

\* handleSave's validation of the morning input
weightInvalidH(weightVal) == weightVal = NaN \/ weightVal.n <= 0

\* handleSave's validation of the night input
calorieInvalidH(calorieVal) == calorieVal = NaN \/ calorieVal.n < 0

\* handleSave's payload: both inputs as they stand
weightToSave(text) ==
    IF TruthyStr(text) THEN Num(RoundTenthsUp(parseFloat(text).n)) ELSE Null

calorieToSave(text) == IF TruthyStr(text) THEN parseInt(text) ELSE Null

\* handleSave up to its await upsertRecord(recordToSave); the request remembers
\* (history) whether the calorie input was fresh and STATE.currentRecord as it was
\* before the click
handleSave ==
    /\ variant = "handleSave" /\ UserEvent
    /\ nEvents' = nEvents + 1
    /\ UNCHANGED <<store, mode, currentDate, isExistingRecord, dateInput, calorieInput,
                   listening, actionBtn, timers, puts>>
    /\ UNCHANGED_Report /\ UNCHANGED_Env /\ UNCHANGED_Ghost
    /\ LET isMorning == mode = "morning"
           weightVal == parseFloat(weightInput)
           calorieVal == parseInt(calorieInput)
       IN  IF isMorning /\ weightInvalidH(weightVal)
           THEN /\ alertMsg' = "invalid-weight"
                /\ UNCHANGED <<queue, currentRecord, weightInput>>
           ELSE IF ~isMorning /\ calorieInvalidH(calorieVal)
           THEN /\ alertMsg' = "invalid-calorie"
                /\ UNCHANGED <<queue, currentRecord, weightInput>>
           ELSE IF currentRecord = Null
           THEN \* STATE.currentRecord.weight = ... throws a TypeError: the click ends here
                /\ alertMsg' = ""
                /\ UNCHANGED <<queue, currentRecord, weightInput>>
           ELSE /\ Room
                /\ currentRecord' =
                      IF isMorning
                      THEN [currentRecord EXCEPT !.weight = toFixed1(weightVal)]
                      ELSE [currentRecord EXCEPT !.total_calorie = calorieVal]
                /\ weightInput' =
                      IF TruthyStr(weightInput) THEN toFixed1(weightToSave(weightInput))
                      ELSE weightInput
                /\ queue' = Append(queue,
                      Req("put", currentDate,
                          Rec(currentDate, weightToSave(weightInput),
                              calorieToSave(calorieInput)),
                          "handleSave",
                          [isMorning |-> isMorning,
                           fresh |-> calorieLoaded = currentDate,
                           before |-> currentRecord]))
                /\ alertMsg' = ""

\* handleSave after await upsertRecord(recordToSave)
handleSaveResolved(q) ==
    /\ store' = StorePut(store, q.rec)
    /\ puts' = Remember(puts, q.rec)
    /\ currentRecord' = q.rec
    /\ actionBtn' = saveMessage(isExistingRecord, q.loc.isMorning)
    /\ isExistingRecord' = Bool(TRUE)
    \* setTimeout(() => { UI.actionBtn.textContent = originalText }, 1500)
    /\ timers' = Append(timers, actionBtn)
    /\ alertMsg' = ""
    /\ UNCHANGED <<mode, currentDate, dateInput, weightInput, calorieInput, listening>>
    /\ UNCHANGED_Report

\* the oldest pending timer of handleSave fires: the button gets originalText back
timerFires ==
    /\ timers # <<>>
    /\ actionBtn' = Head(timers)
    /\ timers' = Tail(timers)
    /\ alertMsg' = ""
    /\ UNCHANGED <<store, queue, mode, currentDate, currentRecord, isExistingRecord,
                   dateInput, weightInput, calorieInput, listening, puts, nEvents>>
    /\ UNCHANGED_Report /\ UNCHANGED_Env /\ UNCHANGED_Ghost

handleSaveRejected(q) ==
    /\ alertMsg' = "save-failed"
    /\ UNCHANGED <<store, mode, currentDate, currentRecord, isExistingRecord, dateInput,
                   weightInput, calorieInput, listening, actionBtn, timers, puts>>
    /\ UNCHANGED_Report

---------------------------------------------------------------------------
(* The saveCurrent controller: src/unnamed/part_001 *)

\* loadRecordForDate(dateISO) up to its await getRecord(dateISO); fromSave marks the
\* call saveCurrent ends with, boot the call init awaits before it adds the listeners
loadRecordRequest(dateISO, boot, fromSave) ==
    Req("get", dateISO, Null, "loadRecordForDate", [boot |-> boot, fromSave |-> fromSave])

\* part_001's text of the action button: '体重を記録' or 'カロリーを記録'
defaultLabelS(m) == IF m = "morning" THEN "label-morning" ELSE "label-calorie"

\* the text loadRecordForDate puts in an input for the field value v of the record
loadRecordText(rec, v) ==
    IF rec = Null \/ IsNullish(v) THEN EmptyStr ELSE String(v)

loadRecordResolved(q) ==
    LET rec == getRecordResult(store, q.date)
    IN  /\ currentRecord' = rec
        /\ dateInput' = q.date
        /\ weightInput' = loadRecordText(rec, IF rec = Null THEN Null ELSE rec.weight)
        /\ calorieInput' = loadRecordText(rec, IF rec = Null THEN Null ELSE rec.total_calorie)
        /\ listening' = (listening \/ q.loc.boot)
        /\ actionBtn' = defaultLabelS(mode)
        /\ alertMsg' = ""
        /\ UNCHANGED <<store, mode, currentDate, isExistingRecord, timers, puts>>
        /\ UNCHANGED_Report

\* a rejected await in the saveCurrent controller: no handler catches it
unhandledRejection(q) ==
    /\ alertMsg' = ""
    /\ UNCHANGED <<store, mode, currentDate, currentRecord, isExistingRecord, dateInput,
                   weightInput, calorieInput, listening, actionBtn, timers, puts>>
    /\ UNCHANGED_Report

\* the date input's change listener
dateChange(d) ==
    /\ variant = "saveCurrent" /\ UserEvent /\ Room
    /\ dateInput' = d
    /\ currentDate' = d
    /\ queue' = Append(queue, loadRecordRequest(d, FALSE, FALSE))
    /\ alertMsg' = ""
    /\ nEvents' = nEvents + 1
    /\ UNCHANGED <<store, mode, currentRecord, isExistingRecord, weightInput,
                   calorieInput, listening, actionBtn, timers, puts>>
    /\ UNCHANGED_Report /\ UNCHANGED_Env /\ UNCHANGED_Ghost

\* the mode buttons' click listeners: switchMode(m), then loadRecordForDate
switchModeS(m) ==
    /\ variant = "saveCurrent" /\ UserEvent /\ Room
    /\ mode' = m
    /\ actionBtn' = defaultLabelS(m)
    /\ currentDate' = dateInput
    /\ queue' = Append(queue, loadRecordRequest(dateInput, FALSE, FALSE))
    /\ alertMsg' = ""
    /\ nEvents' = nEvents + 1
    /\ UNCHANGED <<store, currentRecord, isExistingRecord, dateInput, weightInput,
                   calorieInput, listening, timers, puts>>
    /\ UNCHANGED_Report /\ UNCHANGED_Env /\ UNCHANGED_Ghost

\* history: a request of a saveCurrent call (its read, its write, its final reload)
IsSaveReq(q) ==
    \/ q.k \in {"saveCurrent", "saveCurrentUpsert"}
    \/ q.k = "loadRecordForDate" /\ q.loc.fromSave

\* the field a saveCurrent write sets: that of the mode read at the merge
FieldOf(m) == IF m = "morning" THEN "weight" ELSE "total_calorie"

FieldValue(rec, f) ==
    IF rec = Null THEN Null ELSE IF f = "weight" THEN rec.weight ELSE rec.total_calorie

\* history: q is written while later saveCurrent writes to the same date, whose reads
\* are done, are still pending: each remembers the first such write
MarkOverlapped(rest, q, before) ==
    [j \in 1..Len(rest) |->
        IF rest[j].k = "saveCurrentUpsert" /\ rest[j].date = q.date
           /\ rest[j].loc.lostOf = Null
        THEN [rest[j] EXCEPT !.loc.lostOf =
                 [field |-> FieldOf(q.loc.mergeMode),
                  before |-> FieldValue(before, FieldOf(q.loc.mergeMode)),
                  first |-> FieldValue(q.rec, FieldOf(q.loc.mergeMode))]]
        ELSE rest[j]]

\* saveCurrent's validation
weightInvalidS(weightVal) == weightVal = Null \/ weightVal.n <= 0

calInvalidS(calVal) == calVal = Null \/ calVal.n <= 0

\* for comparison: a merge that writes both inputs, whatever the mode
mergeNextBothInputs(base, m, dateISO, weightVal, calVal) ==
    Rec(dateISO, weightVal, calVal)

\* saveCurrent's merge: next = {...base, date, weight, total_calorie} under mode m
mergeNext(base, m, dateISO, weightVal, calVal) ==
    Rec(dateISO,
        IF m = "morning" THEN weightVal ELSE orNull(base.weight),
        IF m = "night" THEN calVal ELSE orNull(base.total_calorie))

\* saveCurrent up to its await getRecord(dateISO)
saveCurrent ==
    /\ variant = "saveCurrent" /\ UserEvent
    /\ nEvents' = nEvents + 1
    /\ UNCHANGED <<store, mode, currentDate, currentRecord, isExistingRecord, dateInput,
                   weightInput, calorieInput, listening, actionBtn, timers, puts>>
    /\ UNCHANGED_Report /\ UNCHANGED_Env /\ UNCHANGED_Ghost
    /\ LET dateISO == dateInput
           weightVal == safeNumber(weightInput)
           calVal == safeNumber(calorieInput)
       IN  IF mode = "morning" /\ weightInvalidS(weightVal)
           THEN alertMsg' = "invalid-weight" /\ UNCHANGED queue
           ELSE IF mode # "morning" /\ calInvalidS(calVal)
           THEN alertMsg' = "invalid-calorie" /\ UNCHANGED queue
           ELSE /\ Room
                /\ alertMsg' = ""
                /\ queue' = Append(queue,
                      Req("get", dateISO, Null, "saveCurrent",
                          [weightVal |-> weightVal, calVal |-> calVal,
                           clickMode |-> mode,
                           alone |-> \A j \in 1..Len(queue) : ~IsSaveReq(queue[j])]))

\* saveCurrent after await getRecord(dateISO): merge and call upsertRecord(next)
saveCurrentMerged(q) ==
    LET got == getRecordResult(store, q.date)
        base == IF got # Null THEN got ELSE Rec(q.date, Null, Null)
        next == mergeNext(base, mode, q.date, q.loc.weightVal, q.loc.calVal)
    IN  Req("put", q.date, next, "saveCurrentUpsert",
            [clickMode |-> q.loc.clickMode, weightVal |-> q.loc.weightVal,
             calVal |-> q.loc.calVal, alone |-> q.loc.alone, mergeMode |-> mode,
             lostOf |-> Null])

---------------------------------------------------------------------------
(* The range query of the report, and the export *)

PrevDay(d) ==
    IF d[3] > 1 THEN <<d[1], d[2], d[3] - 1>>
    ELSE IF d[2] > 1 THEN <<d[1], d[2] - 1, DaysInMonth(d[1], d[2] - 1)>>
    ELSE <<d[1] - 1, 12, 31>>

\* the date string of the day k days before d
RECURSIVE MinusDays(_, _)
MinusDays(d, k) == IF k = 0 THEN d ELSE MinusDays(PrevDay(d), k - 1)

\* the first record of records.sort((a, b) => a.date.localeCompare(b.date))
SortTakeFirst(S) ==
    CHOOSE r \in S : \A x \in S : StrLE(r.date, x.date)

\* the records of S as the array sorted by date
RECURSIVE SortByDate(_)
SortByDate(S) ==
    IF S = {} THEN <<>>
    ELSE LET m == SortTakeFirst(S) IN <<m>> \o SortByDate(S \ {m})

\* for comparison: a filter that leaves the end date out
InRangeExclusiveEnd(r, start, end) ==
    StrLE(start, r.date) /\ StrLE(r.date, end) /\ r.date # end

\* the handleSave controller's filter: r.date >= start && r.date <= end
InRangeH(r, start, end) == StrLE(start, r.date) /\ StrLE(r.date, end)

\* parseISODate(s): null for no date, else local midnight as a time in hours
parseISODate(s, off) ==
    IF s = NoDate THEN Null ELSE [t |-> "date", time |-> setHoursZero(DateUTC(s), off)]

\* clampDateRange(start, end)
clampDateRange(start, end, off) ==
    LET s == parseISODate(start, off)
        e == parseISODate(end, off)
    IN  IF s = Null \/ e = Null THEN Null
        ELSE IF s.time > e.time THEN Null
        ELSE [start |-> s, end |-> e]

\* the saveCurrent controller's filter, on the times of the parsed dates
InRangeS(r, range, off) ==
    LET d == parseISODate(r.date, off)
    IN  d # Null /\ d.time >= range.start.time /\ d.time <= range.end.time

---------------------------------------------------------------------------
(* What the report renders: the table and the two summaries *)

\* the text '-' of a cell or a summary without a value
Dash == [t |-> "text", s |-> "-"]

\* the text '±0' of a diff of exactly zero
PlusMinusZero == [t |-> "text", s |-> "±0"]

\* the text prefix + d.toFixed(1) for a diff d: the minus sign of a negative d (also
\* of one that rounds to 0.0) and the digits of |d| rounded to one decimal
diffFixed(prefix, d) ==
    [t |-> "fixed", prefix |-> prefix, minus |-> d < 0,
     n |-> RoundTenthsAway(IF d < 0 THEN -d ELSE d)]

\* the local calendar day of new Date('YYYY-MM-DD'), which is midnight UTC
localDay(d, off) == IF off < 0 THEN PrevDay(d) ELSE d

\* `${dDate.getMonth() + 1}/${dDate.getDate()}`
monthSlashDay(d, off) == <<localDay(d, off)[2], localDay(d, off)[3]>>

RECURSIVE SumOf(_)
SumOf(nums) == IF nums = <<>> THEN 0 ELSE Head(nums).n + SumOf(Tail(nums))

MinOf(nums) ==
    CHOOSE m \in {nums[i].n : i \in 1..Len(nums)} : \A i \in 1..Len(nums) : m <= nums[i].n

MaxOf(nums) ==
    CHOOSE m \in {nums[i].n : i \in 1..Len(nums)} : \A i \in 1..Len(nums) : m >= nums[i].n

\* (sum / count).toFixed(1) for sum >= 0: one decimal, a half rounds up
meanFixed1(sum, count) == Str(((2 * sum + 10 * count) \div (20 * count)) * 10)

\* Math.round(sum / count): the nearest integer, a half rounds toward +infinity
meanRound(sum, count) == Num(((2 * sum + 100 * count) \div (200 * count)) * 100)

\* renderReportTable's weight of a record: parseFloat(r.weight), or null
tableWeightH(r) == IF IsNullish(r.weight) THEN Null ELSE parseFloat(r.weight)

\* for comparison: a zero diff shown with the placeholder of the first row
diffTextHZeroAsDash(w, prevWeight) ==
    IF prevWeight = Null \/ w.n = prevWeight.n THEN Dash
    ELSE diffFixed(IF w.n > prevWeight.n THEN "+" ELSE "", w.n - prevWeight.n)

\* renderReportTable's diffStr
diffTextH(w, prevWeight) ==
    IF prevWeight = Null THEN Dash
    ELSE IF w.n - prevWeight.n = 0 THEN PlusMinusZero
    ELSE diffFixed(IF w.n - prevWeight.n > 0 THEN "+" ELSE "", w.n - prevWeight.n)

\* renderReportTable's diffColor
diffColorH(w, prevWeight) ==
    IF prevWeight = Null THEN "inherit"
    ELSE IF w.n - prevWeight.n > 0 THEN "#e53935"
    ELSE IF w.n - prevWeight.n < 0 THEN "#1e88e5" ELSE "inherit"

\* for comparison: a table whose diff is taken from the preceding record, which a
\* record without weight resets
RECURSIVE renderReportTableReset(_, _, _)
renderReportTableReset(records, prevWeight, off) ==
    IF records = <<>> THEN <<>>
    ELSE LET r == Head(records)
             w == tableWeightH(r)
         IN  IF w = Null THEN renderReportTableReset(Tail(records), Null, off)
             ELSE <<[date |-> r.date, dateStr |-> monthSlashDay(r.date, off),
                     weight |-> toFixed1(w), diff |-> diffTextH(w, prevWeight),
                     color |-> diffColorH(w, prevWeight)]>>
                  \o renderReportTableReset(Tail(records), w, off)

\* renderReportTable: a row per record that has a weight; date is the record the
\* row was made from (history).  No row at all stands for the one-cell row
\* 'データがありません'.
RECURSIVE renderReportTable(_, _, _)
renderReportTable(records, prevWeight, off) ==
    IF records = <<>> THEN <<>>
    ELSE LET r == Head(records)
             w == tableWeightH(r)
         IN  IF w = Null THEN renderReportTable(Tail(records), prevWeight, off)
             ELSE <<[date |-> r.date, dateStr |-> monthSlashDay(r.date, off),
                     weight |-> toFixed1(w), diff |-> diffTextH(w, prevWeight),
                     color |-> diffColorH(w, prevWeight)]>>
                  \o renderReportTable(Tail(records), w, off)

\* records.map(f): the weight, or the calorie, of each record
MapWeightH(records) == [i \in 1..Len(records) |-> tableWeightH(records[i])]

NotNull(v) == v # Null

\* w => w !== null && w > 0
PresentPositive(v) == v # Null /\ v.n > 0

\* renderSummary's weights: present and > 0
summaryWeightsH(records) == SelectSeq(MapWeightH(records), PresentPositive)

\* renderSummary's weightHtml: 平均 avg (n=n) Min min / Max max, or '-'
summaryWeightH(records) ==
    LET weights == summaryWeightsH(records)
    IN  IF weights = <<>> THEN Dash
        ELSE [avg |-> meanFixed1(SumOf(weights), Len(weights)), n |-> Len(weights),
              min |-> toFixed1(Num(MinOf(weights))), max |-> toFixed1(Num(MaxOf(weights)))]

\* renderSummary's calorie of a record: parseInt(r.total_calorie, 10), or null
summaryCalorieOfH(r) == IF IsNullish(r.total_calorie) THEN Null ELSE parseInt(r.total_calorie)

MapCalorieH(records) == [i \in 1..Len(records) |-> summaryCalorieOfH(records[i])]

\* renderSummary's calHtml: 平均 avg (n=n), or '-'
summaryCalorieH(records) ==
    LET calories == SelectSeq(MapCalorieH(records), PresentPositive)
    IN  IF calories = <<>> THEN Dash
        ELSE [avg |-> meanRound(SumOf(calories), Len(calories)), n |-> Len(calories)]

\* the table of part_001's updateReport: a row per record, '-' for a missing weight;
\* date is the record the row was made from (history)
RECURSIVE reportTableS(_, _)
reportTableS(records, prevWeight) ==
    IF records = <<>> THEN <<>>
    ELSE LET r == Head(records)
             w == safeNumber(r.weight)
             diff == IF w # Null /\ prevWeight # Null THEN Num(w.n - prevWeight.n) ELSE Null
         IN  <<[date |-> r.date, dateStr |-> r.date,
                weight |-> IF w = Null THEN Dash ELSE toFixed1(w),
                diff |-> IF diff = Null THEN Dash
                         ELSE IF diff.n > 0 THEN diffFixed("+", diff.n)
                         ELSE diffFixed("", diff.n)]>>
             \o reportTableS(Tail(records), IF w # Null THEN w ELSE prevWeight)

MapWeightS(records) == [i \in 1..Len(records) |-> safeNumber(records[i].weight)]

MapCalorieS(records) == [i \in 1..Len(records) |-> safeNumber(records[i].total_calorie)]

\* part_001's summaryWeight text: 平均 avg / 件数 n, or '-'
summaryWeightS(records) ==
    LET weights == SelectSeq(MapWeightS(records), NotNull)
    IN  IF weights = <<>> THEN Dash
        ELSE [avg |-> meanFixed1(SumOf(weights), Len(weights)), n |-> Len(weights)]

\* part_001's summaryCalorie text: 平均 avg / 件数 n, or '-'
summaryCalorieS(records) ==
    LET cals == SelectSeq(MapCalorieS(records), NotNull)
    IN  IF cals = <<>> THEN Dash
        ELSE [avg |-> meanRound(SumOf(cals), Len(cals)), n |-> Len(cals)]

\* the report as rendered: the filtered records, the table, the two summaries, and
\* (history) the range the records were filtered to, the store they were read from,
\* and whether the report rendered before was of the same range
ReportView(seq, start, end, table, sumW, sumC) ==
    [t |-> "report", rows |-> seq, start |-> start, end |-> end, table |-> table,
     summaryWeight |-> sumW, summaryCalorie |-> sumC,
     of |-> store,
     again |-> reportRows # Null /\ reportRows.start = start /\ reportRows.end = end]

reportRequestH(start, end) ==
    Req("getAll", NoDate, Null, "updateReportH", [start |-> start, end |-> end])

\* updateReport of the handleSave controller, from reading the inputs to its await
updateReportH ==
    /\ variant = "handleSave" /\ UserEvent
    /\ nEvents' = nEvents + 1
    /\ alertMsg' = ""
    /\ IF reportStart = NoDate \/ reportEnd = NoDate
       THEN UNCHANGED queue
       ELSE Room /\ queue' = Append(queue, reportRequestH(reportStart, reportEnd))
    /\ UNCHANGED <<store, mode, currentDate, currentRecord, isExistingRecord, dateInput,
                   weightInput, calorieInput, listening, actionBtn, timers, puts>>
    /\ UNCHANGED_Report /\ UNCHANGED_Env /\ UNCHANGED_Ghost

\* openReport of the handleSave controller: the last 7 days, then updateReport()
openReportH ==
    /\ variant = "handleSave" /\ UserEvent /\ Room
    /\ nEvents' = nEvents + 1
    /\ alertMsg' = ""
    /\ reportEnd' = Today
    /\ reportStart' = MinusDays(Today, 6)
    /\ queue' = Append(queue, reportRequestH(MinusDays(Today, 6), Today))
    /\ UNCHANGED <<store, mode, currentDate, currentRecord, isExistingRecord, dateInput,
                   weightInput, calorieInput, listening, actionBtn, timers, puts, reportRows, csvRows,
                   graphRows, graphState>>
    /\ UNCHANGED_Env /\ UNCHANGED_Ghost

\* for comparison: an updateReport that does not empty the table before filling it
updateReportHNoClear(q) ==
    /\ LET filtered == SortByDate({r \in store : InRangeH(r, q.loc.start, q.loc.end)})
       IN  reportRows' = ReportView(filtered, q.loc.start, q.loc.end,
                             (IF reportRows = Null THEN <<>> ELSE reportRows.table)
                                 \o renderReportTable(filtered, Null, tz),
                             summaryWeightH(filtered), summaryCalorieH(filtered))
    /\ alertMsg' = ""
    /\ UNCHANGED <<store, mode, currentDate, currentRecord, isExistingRecord, dateInput,
                   weightInput, calorieInput, listening, actionBtn, timers, puts, reportStart, reportEnd,
                   csvRows, graphRows, graphState>>

updateReportHResolved(q) ==
    /\ LET filtered == SortByDate({r \in store : InRangeH(r, q.loc.start, q.loc.end)})
       IN  reportRows' = ReportView(filtered, q.loc.start, q.loc.end,
                             renderReportTable(filtered, Null, tz),
                             summaryWeightH(filtered), summaryCalorieH(filtered))
    /\ alertMsg' = ""
    /\ UNCHANGED <<store, mode, currentDate, currentRecord, isExistingRecord, dateInput,
                   weightInput, calorieInput, listening, actionBtn, timers, puts, reportStart, reportEnd,
                   csvRows, graphRows, graphState>>

updateReportHRejected(q) ==
    /\ alertMsg' = "report-failed"
    /\ UNCHANGED <<store, mode, currentDate, currentRecord, isExistingRecord, dateInput,
                   weightInput, calorieInput, listening, actionBtn, timers, puts>>
    /\ UNCHANGED_Report

reportRequestS(range, start, end) ==
    Req("getAll", NoDate, Null, "updateReportS",
        [range |-> range, start |-> start, end |-> end])

\* updateReport of the saveCurrent controller
updateReportS ==
    /\ variant = "saveCurrent" /\ UserEvent
    /\ nEvents' = nEvents + 1
    /\ LET range == clampDateRange(reportStart, reportEnd, tz)
       IN  IF range = Null
           THEN alertMsg' = "invalid-range" /\ UNCHANGED queue
           ELSE Room /\ alertMsg' = "" /\ queue' = Append(queue, reportRequestS(range, reportStart, reportEnd))
    /\ UNCHANGED <<store, mode, currentDate, currentRecord, isExistingRecord, dateInput,
                   weightInput, calorieInput, listening, actionBtn, timers, puts>>
    /\ UNCHANGED_Report /\ UNCHANGED_Env /\ UNCHANGED_Ghost

\* openReport of the saveCurrent controller: the last 30 days, then updateReport()
openReportS ==
    /\ variant = "saveCurrent" /\ UserEvent /\ Room
    /\ nEvents' = nEvents + 1
    /\ alertMsg' = ""
    /\ reportEnd' = Today
    /\ reportStart' = MinusDays(Today, 29)
    /\ queue' = Append(queue,
                       reportRequestS(clampDateRange(MinusDays(Today, 29), Today, tz),
                                      MinusDays(Today, 29), Today))
    /\ UNCHANGED <<store, mode, currentDate, currentRecord, isExistingRecord, dateInput,
                   weightInput, calorieInput, listening, actionBtn, timers, puts, reportRows, csvRows,
                   graphRows, graphState>>
    /\ UNCHANGED_Env /\ UNCHANGED_Ghost

updateReportSResolved(q) ==
    /\ LET filtered == SortByDate({r \in store : InRangeS(r, q.loc.range, tz)})
       IN  reportRows' = ReportView(filtered, q.loc.start, q.loc.end,
                             reportTableS(filtered, Null),
                             summaryWeightS(filtered), summaryCalorieS(filtered))
    /\ alertMsg' = ""
    /\ UNCHANGED <<store, mode, currentDate, currentRecord, isExistingRecord, dateInput,
                   weightInput, calorieInput, listening, actionBtn, timers, puts, reportStart, reportEnd,
                   csvRows, graphRows, graphState>>

\* what renderGraph draws from a stored value (part_000): null for null, undefined
\* and '', else Number(v)
graphValueH(v) == IF IsNullish(v) \/ v = EmptyStr THEN Null ELSE Number(v)

MetricOf(r, metric) == IF metric = "weight" THEN r.weight ELSE r.total_calorie

\* series.some(v => v !== null && !Number.isNaN(v)) / values.some(v => v !== null)
hasAny(series) == \E i \in 1..Len(series) : series[i] # Null /\ series[i] # NaN

\* new Chart(ctx, {data: {labels, datasets: [{label, data}]}})
Chart(labels, series, isWeight) ==
    [t |-> "chart", labels |-> labels, series |-> series,
     label |-> IF isWeight THEN "weight" ELSE "calorie"]

\* renderGraph of src/unnamed/part_000, in a page that has the canvas: the chart it
\* creates, Null when it creates none (no record, or no value in the series)
renderGraphH(records, metric, off) ==
    LET isWeight == metric = "weight"
        series == [i \in 1..Len(records) |->
                     graphValueH(MetricOf(records[i], IF isWeight THEN "weight" ELSE "calorie"))]
    IN  IF records = <<>> \/ ~hasAny(series) THEN Null
        ELSE Chart([i \in 1..Len(records) |-> monthSlashDay(records[i].date, off)],
                   series, isWeight)

\* renderGraph of src/unnamed/part_001, in a page that has the canvas and Chart.js
renderGraphS(records, metric) ==
    LET isWeight == metric = "weight"
        values == [i \in 1..Len(records) |->
                     safeNumber(MetricOf(records[i], IF isWeight THEN "weight" ELSE "calorie"))]
    IN  IF ~hasAny(values) THEN Null
        ELSE Chart([i \in 1..Len(records) |-> <<records[i].date[2], records[i].date[3]>>],
                   values, isWeight)

\* the graph view after a render: graphState.chart, and (history) the records it
\* was rendered from, their range, and the tab that was chosen then
GraphView(chart, seq, start, end) ==
    [t |-> "graph", chart |-> chart, rows |-> seq, start |-> start, end |-> end,
     tab |-> graphState.tab]

graphRequestOf(k, start, end) ==
    Req("getAll", NoDate, Null, k, [start |-> start, end |-> end])

\* the graph's date inputs after openGraph: the last 7 days
graphRequest(k) == graphRequestOf(k, MinusDays(Today, 6), Today)

\* openGraph of src/unnamed/part_000, with its updateGraph up to the await;
\* updateGraph returns early when the elements "graphStart" and "graphEnd" are
\* not in the document (domReady FALSE)
openGraphH(domReady) ==
    /\ variant = "handleSave" /\ UserEvent
    /\ nEvents' = nEvents + 1
    /\ alertMsg' = ""
    /\ graphState' = [metric |-> "weight", tab |-> "weight", open |-> TRUE]
    /\ IF domReady
       THEN Room /\ queue' = Append(queue, graphRequest("updateGraphH"))
       ELSE UNCHANGED queue
    /\ UNCHANGED <<store, mode, currentDate, currentRecord, isExistingRecord, dateInput,
                   weightInput, calorieInput, listening, actionBtn, timers, puts, reportStart, reportEnd,
                   reportRows, csvRows, graphRows>>
    /\ UNCHANGED_Env /\ UNCHANGED_Ghost

\* part_000's updateGraph up to the await, the two date inputs holding start and
\* end (NoDate: the element is missing or empty, and updateGraph returns)
updateGraphHStart(start, end) ==
    IF start # NoDate /\ end # NoDate
    THEN Room /\ queue' = Append(queue, graphRequestOf("updateGraphH", start, end))
    ELSE UNCHANGED queue

\* a click on part_000's update button
updateGraphH(start, end) ==
    /\ variant = "handleSave" /\ UserEvent /\ graphState.open
    /\ nEvents' = nEvents + 1
    /\ alertMsg' = ""
    /\ updateGraphHStart(start, end)
    /\ UNCHANGED <<store, mode, currentDate, currentRecord, isExistingRecord, dateInput,
                   weightInput, calorieInput, listening, actionBtn, timers, puts>>
    /\ UNCHANGED_Report /\ UNCHANGED_Env /\ UNCHANGED_Ghost

\* a click on a metric tab of part_000: GRAPH_STATE.metric = metric (the tab chosen),
\* setActiveTab(), updateGraph().  graphState.metric, which renderGraph reads, is
\* not assigned.  setActiveTab is not defined in the source at hand: the call
\* either throws (returns FALSE), and updateGraph is not reached, or returns.
graphTabClickH(metric, returns, start, end) ==
    /\ variant = "handleSave" /\ UserEvent /\ graphState.open
    /\ nEvents' = nEvents + 1
    /\ alertMsg' = ""
    /\ graphState' = [graphState EXCEPT !.tab = metric]
    /\ IF returns THEN updateGraphHStart(start, end) ELSE UNCHANGED queue
    /\ UNCHANGED <<store, mode, currentDate, currentRecord, isExistingRecord, dateInput,
                   weightInput, calorieInput, listening, actionBtn, timers, puts, reportStart, reportEnd,
                   reportRows, csvRows, graphRows>>
    /\ UNCHANGED_Env /\ UNCHANGED_Ghost

\* updateGraph of src/unnamed/part_000 after the await: no record in the range is
\* an alert, else renderGraph(filtered)
updateGraphHResolved(q) ==
    /\ LET filtered == SortByDate({r \in store : InRangeH(r, q.loc.start, q.loc.end)})
       IN  IF filtered = <<>>
           THEN alertMsg' = "no-graph-data" /\ UNCHANGED graphRows
           ELSE /\ alertMsg' = ""
                /\ graphRows' = GraphView(renderGraphH(filtered, graphState.metric, tz),
                                          filtered, q.loc.start, q.loc.end)
    /\ UNCHANGED <<store, mode, currentDate, currentRecord, isExistingRecord, dateInput,
                   weightInput, calorieInput, listening, actionBtn, timers, puts, reportStart, reportEnd,
                   reportRows, csvRows, graphState>>

updateGraphHRejected(q) ==
    /\ alertMsg' = "graph-failed"
    /\ UNCHANGED <<store, mode, currentDate, currentRecord, isExistingRecord, dateInput,
                   weightInput, calorieInput, listening, actionBtn, timers, puts>>
    /\ UNCHANGED_Report

\* openGraph of src/unnamed/part_001, with its updateGraph up to the await
openGraphS ==
    /\ variant = "saveCurrent" /\ UserEvent /\ Room
    /\ nEvents' = nEvents + 1
    /\ alertMsg' = ""
    /\ graphState' = [metric |-> "weight", tab |-> "weight", open |-> TRUE]
    /\ queue' = Append(queue, graphRequest("updateGraphS"))
    /\ UNCHANGED <<store, mode, currentDate, currentRecord, isExistingRecord, dateInput,
                   weightInput, calorieInput, listening, actionBtn, timers, puts, reportStart, reportEnd,
                   reportRows, csvRows, graphRows>>
    /\ UNCHANGED_Env /\ UNCHANGED_Ghost

\* part_001's updateGraph up to the await, the two date inputs holding start and end
updateGraphSStart(start, end) ==
    IF clampDateRange(start, end, tz) = Null
    THEN alertMsg' = "invalid-range" /\ UNCHANGED queue
    ELSE /\ Room
         /\ alertMsg' = ""
         /\ queue' = Append(queue, graphRequestOf("updateGraphS", start, end))

\* a click on part_001's update button
updateGraphS(start, end) ==
    /\ variant = "saveCurrent" /\ UserEvent /\ graphState.open
    /\ nEvents' = nEvents + 1
    /\ updateGraphSStart(start, end)
    /\ UNCHANGED <<store, mode, currentDate, currentRecord, isExistingRecord, dateInput,
                   weightInput, calorieInput, listening, actionBtn, timers, puts>>
    /\ UNCHANGED_Report /\ UNCHANGED_Env /\ UNCHANGED_Ghost

\* a click on a metric button of part_001: setGraphTab(metric), updateGraph()
graphTabClickS(metric, start, end) ==
    /\ variant = "saveCurrent" /\ UserEvent /\ graphState.open
    /\ nEvents' = nEvents + 1
    /\ graphState' = [graphState EXCEPT !.metric = metric, !.tab = metric]
    /\ updateGraphSStart(start, end)
    /\ UNCHANGED <<store, mode, currentDate, currentRecord, isExistingRecord, dateInput,
                   weightInput, calorieInput, listening, actionBtn, timers, puts, reportStart, reportEnd,
                   reportRows, csvRows, graphRows>>
    /\ UNCHANGED_Env /\ UNCHANGED_Ghost

\* updateGraph of src/unnamed/part_001 after the await: renderGraph(records)
updateGraphSResolved(q) ==
    /\ LET records == SortByDate({r \in store :
                          InRangeS(r, clampDateRange(q.loc.start, q.loc.end, tz), tz)})
       IN  graphRows' = GraphView(renderGraphS(records, graphState.metric),
                                  records, q.loc.start, q.loc.end)
    /\ alertMsg' = ""
    /\ UNCHANGED <<store, mode, currentDate, currentRecord, isExistingRecord, dateInput,
                   weightInput, calorieInput, listening, actionBtn, timers, puts, reportStart, reportEnd,
                   reportRows, csvRows, graphState>>

\* destroyGraphChart: graphState.chart.destroy(), graphState.chart = null
destroyGraphChart(view) == IF view = Null THEN Null ELSE [view EXCEPT !.chart = Null]

\* closeGraph of src/unnamed/part_000 (the back button of the graph view):
\* destroyGraphChart(), hide the graph view, show the main view
closeGraphH ==
    /\ variant = "handleSave" /\ UserEvent /\ graphState.open
    /\ nEvents' = nEvents + 1
    /\ alertMsg' = ""
    /\ graphRows' = destroyGraphChart(graphRows)
    /\ graphState' = [graphState EXCEPT !.open = FALSE]
    /\ UNCHANGED <<store, queue, mode, currentDate, currentRecord, isExistingRecord, dateInput,
                   weightInput, calorieInput, listening, actionBtn, timers, puts, reportStart, reportEnd,
                   reportRows, csvRows>>
    /\ UNCHANGED_Env /\ UNCHANGED_Ghost

\* closeGraph of src/unnamed/part_001: hide the graph view, show the main view,
\* destroyGraphChart()
closeGraphS ==
    /\ variant = "saveCurrent" /\ UserEvent /\ graphState.open
    /\ nEvents' = nEvents + 1
    /\ alertMsg' = ""
    /\ graphState' = [graphState EXCEPT !.open = FALSE]
    /\ graphRows' = destroyGraphChart(graphRows)
    /\ UNCHANGED <<store, queue, mode, currentDate, currentRecord, isExistingRecord, dateInput,
                   weightInput, calorieInput, listening, actionBtn, timers, puts, reportStart, reportEnd,
                   reportRows, csvRows>>
    /\ UNCHANGED_Env /\ UNCHANGED_Ghost

---------------------------------------------------------------------------
(* The CSV text of the two exports *)

EmptyCell == [t |-> "text", s |-> ""]

\* a number as a template literal or Array.join prints it: no trailing zeros, no
\* decimal point for a whole number
numberText(n) ==
    LET a == IF n < 0 THEN -n ELSE n
        f == a % 100
    IN  [t |-> "number", minus |-> n < 0, whole |-> a \div 100,
         frac |-> IF f = 0 THEN <<>>
                  ELSE IF f % 10 = 0 THEN <<f \div 10>> ELSE <<f \div 10, f % 10>>]

\* `${v}` of a stored value
templateText(v) ==
    CASE v.t \in {"num", "str"} -> numberText(v.n)
      [] v = EmptyStr -> EmptyCell
      [] OTHER -> [t |-> "text", s |-> v.t]

\* handleExport's cell: r.weight !== null ? r.weight : ''
csvCellH(v) == IF v = Null THEN EmptyCell ELSE templateText(v)

\* handleExport's csvContent after the data: prefix: the header and a line per
\* record, each ended by \n
handleExportText(records) ==
    [t |-> "csv", header |-> <<"Date", "Weight", "TotalCalorie">>,
     lines |-> [i \in 1..Len(records) |->
                  <<records[i].date, csvCellH(records[i].weight),
                    csvCellH(records[i].total_calorie)>>],
     trailingNewline |-> TRUE]

\* exportCSV's cell: (v ?? '') === null ? '' : (v ?? '')
csvCellS(v) == IF IsNullish(v) THEN EmptyCell ELSE templateText(v)

\* exportCSV's lines.join('\n'): the header and a line per record
exportCSVText(records) ==
    [t |-> "csv", header |-> <<"date", "weight", "total_calorie">>,
     lines |-> [i \in 1..Len(records) |->
                  <<records[i].date, csvCellS(records[i].weight),
                    csvCellS(records[i].total_calorie)>>],
     trailingNewline |-> FALSE]

\* handleExport / exportCSV up to await getAllRecords()
exportClick ==
    /\ UserEvent /\ Room
    /\ nEvents' = nEvents + 1
    /\ alertMsg' = ""
    /\ queue' = Append(queue, Req("getAll", NoDate, Null,
                   IF variant = "handleSave" THEN "handleExport" ELSE "exportCSV", NoLoc))
    /\ UNCHANGED <<store, mode, currentDate, currentRecord, isExistingRecord, dateInput,
                   weightInput, calorieInput, listening, actionBtn, timers, puts>>
    /\ UNCHANGED_Report /\ UNCHANGED_Env /\ UNCHANGED_Ghost

\* handleExport after the await: nothing to export is an alert, else the sorted rows
handleExportResolved(q) ==
    /\ IF store = {}
       THEN alertMsg' = "no-data" /\ UNCHANGED csvRows
       ELSE alertMsg' = "" /\ csvRows' = handleExportText(SortByDate(store))
    /\ UNCHANGED <<store, mode, currentDate, currentRecord, isExistingRecord, dateInput,
                   weightInput, calorieInput, listening, actionBtn, timers, puts, reportStart, reportEnd,
                   reportRows, graphRows, graphState>>

handleExportRejected(q) ==
    /\ alertMsg' = "export-failed"
    /\ UNCHANGED <<store, mode, currentDate, currentRecord, isExistingRecord, dateInput,
                   weightInput, calorieInput, listening, actionBtn, timers, puts>>
    /\ UNCHANGED_Report

\* exportCSV after the await
exportCSVResolved(q) ==
    /\ alertMsg' = ""
    /\ csvRows' = exportCSVText(SortByDate(store))
    /\ UNCHANGED <<store, mode, currentDate, currentRecord, isExistingRecord, dateInput,
                   weightInput, calorieInput, listening, actionBtn, timers, puts, reportStart, reportEnd,
                   reportRows, graphRows, graphState>>

\* the user edits the two date inputs of the report
setReportRange(start, end) ==
    /\ UserEvent
    /\ reportStart' = start
    /\ reportEnd' = end
    /\ nEvents' = nEvents + 1
    /\ alertMsg' = ""
    /\ UNCHANGED <<store, queue, mode, currentDate, currentRecord, isExistingRecord,
                   dateInput, weightInput, calorieInput, listening, actionBtn, timers, puts, reportRows,
                   csvRows, graphRows, graphState>>
    /\ UNCHANGED_Env /\ UNCHANGED_Ghost

---------------------------------------------------------------------------
(* The user's edits of the two inputs *)

\* what the user types into the weight input
WeightTexts == {EmptyStr, Str(0), Str(7000), Str(7526)}
\* what the user types into the calorie input
CalorieTexts == {EmptyStr, Str(0), Str(-50), Str(-500), Str(180050)}

\* the weight input is disabled (handleSave) or hidden (saveCurrent) in night mode
editWeight(text) ==
    /\ UserEvent /\ mode = "morning"
    /\ text # weightInput
    /\ weightInput' = text
    /\ nEvents' = nEvents + 1
    /\ alertMsg' = ""
    /\ UNCHANGED <<store, queue, mode, currentDate, currentRecord, isExistingRecord,
                   dateInput, calorieInput, listening, actionBtn, timers, puts>>
    /\ UNCHANGED_Report /\ UNCHANGED_Env /\ UNCHANGED_Ghost

\* the calorie group is hidden in morning mode
editCalorie(text) ==
    /\ UserEvent /\ mode = "night"
    /\ text # calorieInput
    /\ calorieInput' = text
    /\ calorieLoaded' = NoDate
    /\ nEvents' = nEvents + 1
    /\ alertMsg' = ""
    /\ UNCHANGED <<store, queue, mode, currentDate, currentRecord, isExistingRecord,
                   dateInput, weightInput, listening, actionBtn, timers, puts, race>>
    /\ UNCHANGED_Report /\ UNCHANGED_Env

---------------------------------------------------------------------------
(* IndexedDB completes a pending request: onsuccess or onerror *)

Resolve(i) ==
    /\ CanComplete(queue, i)
    /\ LET q == queue[i]
           rest == Remove(queue, i)
       IN  CASE q.k = "loadDataForDate" -> loadDataResolved(q) /\ queue' = rest
             [] q.k = "handleSave" -> handleSaveResolved(q) /\ queue' = rest
             [] q.k = "updateReportH" -> updateReportHResolved(q) /\ queue' = rest
             [] q.k = "handleExport" -> handleExportResolved(q) /\ queue' = rest
             [] q.k = "loadRecordForDate" -> loadRecordResolved(q) /\ queue' = rest
             [] q.k = "updateReportS" -> updateReportSResolved(q) /\ queue' = rest
             [] q.k = "exportCSV" -> exportCSVResolved(q) /\ queue' = rest
             [] q.k = "updateGraphH" -> updateGraphHResolved(q) /\ queue' = rest
             [] q.k = "updateGraphS" -> updateGraphSResolved(q) /\ queue' = rest
             [] q.k = "saveCurrent" ->
                   \* merge, then await upsertRecord(next)
                   /\ queue' = Append(rest, saveCurrentMerged(q))
                   /\ alertMsg' = ""
                   /\ UNCHANGED <<store, mode, currentDate, currentRecord,
                                  isExistingRecord, dateInput, weightInput,
                                  calorieInput, listening, actionBtn, timers, puts>>
                   /\ UNCHANGED_Report
             [] q.k = "saveCurrentUpsert" ->
                   \* the record is written; then await loadRecordForDate(dateISO)
                   /\ store' = StorePut(store, q.rec)
                   /\ puts' = Remember(puts, q.rec)
                   /\ currentDate' = q.date
                   /\ queue' = Append(MarkOverlapped(rest, q, Stored(q.date)),
                                      loadRecordRequest(q.date, FALSE, TRUE))
                   /\ alertMsg' = ""
                   /\ UNCHANGED <<mode, currentRecord, isExistingRecord, dateInput,
                                  weightInput, calorieInput, listening, actionBtn, timers>>
                   /\ UNCHANGED_Report
    /\ LET q == queue[i]
       IN  /\ race' = IF q.k = "saveCurrentUpsert" /\ q.loc.lostOf # Null
                      THEN [date |-> q.date, field |-> q.loc.lostOf.field,
                            before |-> q.loc.lostOf.before, first |-> q.loc.lostOf.first,
                            secondField |-> FieldOf(q.loc.mergeMode), second |-> q.rec]
                      ELSE race
           /\ calorieLoaded' = IF q.k \in {"loadDataForDate", "loadRecordForDate"}
                               THEN q.date ELSE calorieLoaded
    /\ UNCHANGED <<nEvents>> /\ UNCHANGED_Env

Reject(i) ==
    /\ CanComplete(queue, i)
    /\ LET q == queue[i]
       IN  CASE q.k = "loadDataForDate" -> loadDataRejected(q)
             [] q.k = "handleSave" -> handleSaveRejected(q)
             [] q.k = "updateReportH" -> updateReportHRejected(q)
             [] q.k = "handleExport" -> handleExportRejected(q)
             [] q.k = "updateGraphH" -> updateGraphHRejected(q)
             [] OTHER -> unhandledRejection(q)
    /\ queue' = Remove(queue, i)
    /\ UNCHANGED <<nEvents>> /\ UNCHANGED_Env /\ UNCHANGED_Ghost

---------------------------------------------------------------------------
(* The application as loaded *)

\* what earlier sessions may have left in the database: nothing, a full day, and,
\* written by the handleSave controller (a night save of "0" after a morning save),
\* a day whose total_calorie is 0
PersistedStores ==
    {{}, {Rec(Today, Num(7000), Num(180000))}, {Rec(Today, Num(7000), Num(0))}}

NoPuts == [d \in AppDates |-> <<>>]

InitCommon ==
    /\ variant \in {"handleSave", "saveCurrent"}
    /\ mode = "morning"
    /\ currentDate = Today
    /\ currentRecord = Null
    /\ isExistingRecord = Undefined
    /\ dateInput = Today
    /\ weightInput = EmptyStr
    /\ calorieInput = EmptyStr
    /\ listening = (variant = "handleSave")
    /\ actionBtn = "label-morning"
    /\ timers = <<>>
    /\ queue = IF variant = "handleSave"
               THEN <<Req("get", Today, Null, "loadDataForDate", [init |-> TRUE])>>
               ELSE <<loadRecordRequest(Today, TRUE, FALSE)>>
    /\ alertMsg = ""
    /\ reportStart = NoDate
    /\ reportEnd = NoDate
    /\ reportRows = Null
    /\ csvRows = Null
    /\ graphRows = Null
    /\ graphState = [metric |-> "weight", tab |-> "weight", open |-> FALSE]
    /\ puts = NoPuts
    /\ race = Null
    /\ calorieLoaded = NoDate
    /\ nEvents = 0

Init ==
    /\ InitCommon
    /\ store \in PersistedStores
    /\ tz = 9

Next ==
    \/ \E d \in AppDates : handleDateChange(d)
    \/ \E m \in {"morning", "night"} : switchModeH(m)
    \/ handleSave
    \/ openReportH
    \/ \E d \in AppDates : dateChange(d)
    \/ \E m \in {"morning", "night"} : switchModeS(m)
    \/ saveCurrent
    \/ openReportS
    \/ exportClick
    \/ \E domReady \in BOOLEAN : openGraphH(domReady)
    \/ openGraphS
    \/ \E text \in WeightTexts : editWeight(text)
    \/ \E text \in CalorieTexts : editCalorie(text)
    \/ \E i \in 1..Len(queue) : Resolve(i)
    \/ \E i \in 1..Len(queue) : Reject(i)
    \/ timerFires

Spec == Init /\ [][Next]_vars

---------------------------------------------------------------------------
(* The range query on its own: the store holds any records of Dates, the    *)
(* browser is in any of three time zones, and the user sets the range and   *)
(* updates the report.                                                       *)

RangeRecord(d) ==
    CASE d[3] = 31 -> Rec(d, Num(7000), Null)
      [] d[3] = 1 -> Rec(d, Num(6950), Num(180000))
      [] OTHER -> Rec(d, Null, Num(200000))

RangeStores == {{RangeRecord(d) : d \in S} : S \in SUBSET Dates}

RangeInit ==
    /\ InitCommon
    /\ store \in RangeStores
    /\ tz \in {-5, 0, 9}

RangeNext ==
    \/ \E start, end \in Dates \cup {NoDate} : setReportRange(start, end)
    \/ updateReportH
    \/ updateReportS
    \/ \E i \in 1..Len(queue) : Resolve(i)
    \/ \E i \in 1..Len(queue) : Reject(i)

RangeSpec == RangeInit /\ [][RangeNext]_vars

---------------------------------------------------------------------------
(* The report's rendering on its own: the store holds records of three days  *)
(* with any of the weights, or any of the calorie values, that saves can     *)
(* leave in it, and the user sets the range and updates the report.          *)

ReportDates == {<<2024, 1, 1>>, <<2024, 1, 2>>, <<2024, 1, 3>>}

\* stored weights: none, 0 (handleSave writes the unvalidated input of the other
\* mode), one-decimal values, and a value saveCurrent stores unrounded
ReportWeights == {Null, Num(0), Num(6950), Num(6996), Num(7000)}

\* stored calorie values: none, 0, and positive integers
ReportCalories == {Null, Num(0), Num(180000), Num(180100), Num(200000)}

\* the three records of the spec's example
ExampleRecord(d) ==
    CASE d[3] = 1 -> Rec(d, Num(7000), Null)
      [] d[3] = 2 -> Rec(d, Num(6950), Num(180000))
      [] OTHER -> Rec(d, Null, Num(200000))

ExampleStore == {ExampleRecord(d) : d \in ReportDates}

ReportStores ==
    UNION {
        {{Rec(d, f[d], ExampleRecord(d).total_calorie) : d \in S} : f \in [S -> ReportWeights]}
        \cup {{Rec(d, ExampleRecord(d).weight, f[d]) : d \in S} : f \in [S -> ReportCalories]}
        : S \in SUBSET ReportDates}

\* the ranges set: all three days, the last two, and an empty one
ReportRanges ==
    {<<<<2024, 1, 1>>, <<2024, 1, 3>>>>, <<<<2024, 1, 2>>, <<2024, 1, 3>>>>,
     <<<<2024, 1, 3>>, <<2024, 1, 1>>>>}

ReportInit ==
    /\ InitCommon
    /\ store \in ReportStores
    /\ tz = 9

ReportNext ==
    \/ \E range \in ReportRanges : setReportRange(range[1], range[2])
    \/ updateReportH
    \/ updateReportS
    \/ \E i \in 1..Len(queue) : Resolve(i)
    \/ \E i \in 1..Len(queue) : Reject(i)

ReportSpec == ReportInit /\ [][ReportNext]_vars

---------------------------------------------------------------------------
(* The graph on its own: the store holds records of three days, each with a  *)
(* weight only, a calorie only, or a weight and a calorie of 0; the user     *)
(* opens the graph view, sets the range, picks a metric tab, updates the     *)
(* graph and goes back to the main view.                                     *)

GraphValues == {<<Num(7000), Null>>, <<Null, Num(180000)>>, <<Num(6950), Num(0)>>}

GraphStores ==
    UNION {{{Rec(d, f[d][1], f[d][2]) : d \in S} : f \in [S -> GraphValues]} :
             S \in SUBSET ReportDates}

GraphInit ==
    /\ InitCommon
    /\ store \in GraphStores
    /\ tz = 9

GraphNext ==
    \/ \E domReady \in BOOLEAN : openGraphH(domReady)
    \/ openGraphS
    \/ closeGraphH
    \/ closeGraphS
    \/ \E range \in ReportRanges : updateGraphH(range[1], range[2])
    \/ \E range \in ReportRanges, metric \in {"weight", "calorie"}, returns \in BOOLEAN :
          graphTabClickH(metric, returns, range[1], range[2])
    \/ \E range \in ReportRanges : updateGraphS(range[1], range[2])
    \/ \E range \in ReportRanges, metric \in {"weight", "calorie"} :
          graphTabClickS(metric, range[1], range[2])
    \/ \E i \in 1..Len(queue) : Resolve(i)
    \/ \E i \in 1..Len(queue) : Reject(i)

GraphSpec == GraphInit /\ [][GraphNext]_vars

---------------------------------------------------------------------------
(* Properties *)

LastPut(d) == puts[d][Len(puts[d])]

\* C1: once upsertRecord(r) has resolved and nothing else was written to r.date,
\* getRecord(r.date) yields r, field for field: the put replaces the record wholesale.
C1_UpsertThenGet ==
    \A d \in AppDates : puts[d] # <<>> => getRecordResult(store, d) = LastPut(d)

\* a date was written twice by handleSave, with two different records
C1_Witness ==
    /\ variant = "handleSave"
    /\ \E d \in AppDates :
          /\ Len(puts[d]) = 2 /\ puts[d][1] # puts[d][2]
          /\ getRecordResult(store, d) = puts[d][2]

\* C2: the store holds at most one record per date.
C2_OneRecordPerDate ==
    \A r1 \in store : \A r2 \in store : r1.date = r2.date => r1 = r2

\* saveCurrent saved the same date twice, with different weights
C2_Witness ==
    /\ variant = "saveCurrent"
    /\ \E d \in AppDates :
          /\ Len(puts[d]) = 2 /\ puts[d][1].weight # puts[d][2].weight
          /\ Cardinality({r \in store : r.date = d}) = 1

\* C3: a saveCurrent call that overlaps no other saveCurrent call writes the field of
\* the mode it was clicked in and leaves the other stored field as it was.
C3_SaveCurrentPreservesUntouched ==
    [][\A i \in 1..Len(queue) :
          ( /\ queue[i].k = "saveCurrentUpsert"
            /\ queue[i].loc.alone
            /\ \A j \in 1..Len(queue) : j # i => ~IsSaveReq(queue[j])
            /\ Resolve(i) )
          => IF queue[i].loc.clickMode = "morning"
             THEN /\ WeightIn(store', queue[i].date) = queue[i].loc.weightVal
                  /\ CalorieIn(store', queue[i].date) = CalorieIn(store, queue[i].date)
             ELSE /\ CalorieIn(store', queue[i].date) = queue[i].loc.calVal
                  /\ WeightIn(store', queue[i].date) = WeightIn(store, queue[i].date)
      ]_vars

\* C4: a morning handleSave clicked after the load of the date completed, with the
\* calorie input not edited since, stores the total_calorie that was stored before.
C4_HandleSavePreservesCalorie ==
    [][\A i \in 1..Len(queue) :
          ( /\ queue[i].k = "handleSave"
            /\ queue[i].loc.isMorning
            /\ queue[i].loc.fresh
            /\ Resolve(i) )
          => CalorieIn(store', queue[i].date) = CalorieIn(store, queue[i].date)
      ]_vars

\* C5: no step removes a record: a date that has a record keeps having one.
C5_NoRecordRemoved ==
    [][\A d \in AppDates : Has(store, d) => Has(store', d)]_vars

\* two dates are stored and the graph has been drawn
C5_Witness == Cardinality(store) = 2 /\ graphRows # Null

ValidWeight(w) == IsNullish(w) \/ (IsNum(w) /\ w.n > 0)

ValidCalorie(c) == IsNullish(c) \/ (IsNum(c) /\ c.n >= 0 /\ c.n % 100 = 0)

\* C6: every stored record has a weight that is absent or > 0 and a total_calorie
\* that is absent or an integer >= 0.
C6_StoredRecordsValid ==
    \A r \in store : ValidWeight(r.weight) /\ ValidCalorie(r.total_calorie)

\* the input of the current mode fails validation: the weight is no number or <= 0
\* (morning), the calorie value read from the input is no number or negative (night)
ModeInputInvalid ==
    IF mode = "morning"
    THEN weightInput = EmptyStr \/ weightInput.n <= 0
    ELSE calorieInput = EmptyStr \/ Trunc(calorieInput.n) < 0

C8_LostUpdate ==
    ( /\ race # Null
      /\ race.field # race.secondField
      /\ LastPut(race.date) = race.second )
    => FieldValue(Stored(race.date), race.field) = race.before

\* both writes are done and the weight written by the first is no longer stored
C8_Witness ==
    /\ race # Null
    /\ queue = <<>>
    /\ race.field = "weight" /\ race.secondField = "total_calorie"
    /\ race.first # race.before
    /\ FieldValue(Stored(race.date), race.field) # race.first

\* C9: every rejected storage request raises a user-visible failure message.
C9_NoErrorSwallowed ==
    [][\A i \in 1..Len(queue) : Reject(i) => alertMsg' # ""]_vars

\* the days from a fixed day to the date: the chronological order of dates
Day(d) == DateUTC(d) \div 24

\* C10: the rows a report is rendered from are exactly the stored records with
\* start <= date <= end, each once, in strictly ascending date order.
C10_RangeQueryExact ==
    reportRows # Null =>
        LET rows == reportRows.rows
            want == {r \in store : /\ Day(reportRows.start) <= Day(r.date)
                                   /\ Day(r.date) <= Day(reportRows.end)}
        IN  /\ {rows[i] : i \in 1..Len(rows)} = want
            /\ Len(rows) = Cardinality(want)
            /\ \A i \in 1..(Len(rows) - 1) : Day(rows[i].date) < Day(rows[i + 1].date)

\* west of UTC, a report of two of three stored records whose range ends on a stored date
C10_Witness ==
    /\ reportRows # Null
    /\ variant = "saveCurrent" /\ tz = -5
    /\ Cardinality(store) = 3
    /\ Len(reportRows.rows) = 2
    /\ Has(store, reportRows.end)

\* the stored records whose date lies in start..end
InRangeRecords(start, end) ==
    {r \in store : Day(start) <= Day(r.date) /\ Day(r.date) <= Day(end)}

\* C11: a range query over an empty range (start > end), or over a range no record
\* lies in, raises no message and yields an empty result.
C11_EmptyRangeNoFailure ==
    [][ /\ ( /\ updateReportH \/ updateReportS
             /\ reportStart # NoDate /\ reportEnd # NoDate
             /\ Day(reportStart) > Day(reportEnd) )
          => alertMsg' = ""
        /\ \A i \in 1..Len(queue) :
              ( /\ queue[i].k \in {"updateReportH", "updateReportS"}
                /\ InRangeRecords(queue[i].loc.start, queue[i].loc.end) = {}
                /\ Resolve(i) )
              => alertMsg' = "" /\ reportRows' # Null /\ reportRows'.rows = <<>>
        /\ \A i \in 1..Len(queue) :
              ( /\ queue[i].k \in {"updateGraphH", "updateGraphS"}
                /\ InRangeRecords(queue[i].loc.start, queue[i].loc.end) = {}
                /\ Resolve(i) )
              => alertMsg' = ""
      ]_vars

UsableWeight(r) == ~IsNullish(r.weight) /\ r.weight.n > 0

UsableCalorie(r) == ~IsNullish(r.total_calorie) /\ r.total_calorie.n > 0

RECURSIVE SumWeights(_)
SumWeights(records) ==
    IF records = <<>> THEN 0 ELSE Head(records).weight.n + SumWeights(Tail(records))

RECURSIVE SumCalories(_)
SumCalories(records) ==
    IF records = <<>> THEN 0
    ELSE Head(records).total_calorie.n + SumCalories(Tail(records))

\* num / den rounded to the nearest integer, a half rounding up (num >= 0, den > 0)
RoundHalfUp(num, den) == (2 * num + den) \div (2 * den)

\* C13: when some weight of the filtered records is present and > 0, the weight
\* summary has as count the number of such weights, as average their mean rounded
\* to one decimal, and shows their minimum and maximum.
C13_WeightSummary ==
    reportRows # Null =>
        LET usable == SelectSeq(reportRows.rows, UsableWeight)
            sw == reportRows.summaryWeight
        IN  usable # <<>> =>
                /\ sw # Dash
                /\ sw.n = Len(usable)
                /\ sw.avg = Str(RoundHalfUp(SumWeights(usable), 10 * Len(usable)) * 10)
                /\ "min" \in DOMAIN sw /\ "max" \in DOMAIN sw
                /\ \E i \in 1..Len(usable) : sw.min = Str(RoundTenthsAway(usable[i].weight.n))
                /\ \A i \in 1..Len(usable) : sw.min.n <= usable[i].weight.n + 5
                /\ \E i \in 1..Len(usable) : sw.max = Str(RoundTenthsAway(usable[i].weight.n))
                /\ \A i \in 1..Len(usable) : sw.max.n >= usable[i].weight.n - 5

\* C14: when some total_calorie of the filtered records is present and > 0, the
\* calorie summary has as count the number of such values (a 0 is not counted) and
\* as average their mean rounded to the nearest integer.
C14_CalorieSummary ==
    reportRows # Null =>
        LET usable == SelectSeq(reportRows.rows, UsableCalorie)
            sc == reportRows.summaryCalorie
        IN  usable # <<>> =>
                /\ sc # Dash
                /\ sc.n = Len(usable)
                /\ sc.avg = Num(RoundHalfUp(SumCalories(usable), 100 * Len(usable)) * 100)

\* C15: the summary of a metric is '-' whenever no record of the filtered sequence
\* has a usable value for it, for the weight and for the calorie separately.
C15_EmptySummaryIsDash ==
    reportRows # Null =>
        /\ SelectSeq(reportRows.rows, UsableWeight) = <<>> => reportRows.summaryWeight = Dash
        /\ SelectSeq(reportRows.rows, UsableCalorie) = <<>>
              => reportRows.summaryCalorie = Dash

\* the diff cell shows the difference e: the '±0' mark for 0, else the sign of e and
\* |e| to one decimal
ShowsDiff(text, e) ==
    IF text = PlusMinusZero THEN e = 0
    ELSE /\ text.t = "fixed"
         /\ text.n = RoundTenthsAway(IF e < 0 THEN -e ELSE e)
         /\ text.minus = (e < 0)

\* the positions before i of the records that have a weight
EarlierWeights(rows, i) == {j \in 1..(i - 1) : ~IsNullish(rows[j].weight)}

LastOf(S) == CHOOSE j \in S : \A k \in S : k <= j

\* the difference of the weight at i from the nearest earlier present weight
DiffAt(rows, i) == rows[i].weight.n - rows[LastOf(EarlierWeights(rows, i))].weight.n

\* C16: in the table every record with a weight has a row whose diff is its weight
\* minus the nearest earlier present weight, whatever records without weight lie
\* between; the first record with a weight has the placeholder, no diff.
C16_DiffFromLastPresentWeight ==
    reportRows # Null =>
        LET rows == reportRows.rows
            table == reportRows.table
        IN  \A i \in 1..Len(rows) :
                ~IsNullish(rows[i].weight) =>
                    \E k \in 1..Len(table) :
                        /\ table[k].date = rows[i].date
                        /\ IF EarlierWeights(rows, i) = {} THEN table[k].diff = Dash
                           ELSE ShowsDiff(table[k].diff, DiffAt(rows, i))

\* a loss of 0.5 is shown across a record without weight
C16_Witness ==
    /\ reportRows # Null
    /\ Len(reportRows.rows) = 3
    /\ reportRows.rows[2].weight = Null
    /\ \E k \in 1..Len(reportRows.table) :
          /\ reportRows.table[k].date = <<2024, 1, 3>>
          /\ reportRows.table[k].diff = diffFixed("", -50)

\* C17: a gain is rendered with a '+', a loss with a minus sign and no '+', and a
\* diff of exactly zero with neither, and not with the placeholder of 'no diff'.
C17_DiffSignsDistinct ==
    reportRows # Null =>
        LET rows == reportRows.rows
            table == reportRows.table
        IN  \A i \in 1..Len(rows) : \A k \in 1..Len(table) :
                ( /\ ~IsNullish(rows[i].weight)
                  /\ EarlierWeights(rows, i) # {}
                  /\ table[k].date = rows[i].date )
                => LET e == DiffAt(rows, i)
                       text == table[k].diff
                   IN  /\ e > 0 => text.t = "fixed" /\ text.prefix = "+" /\ ~text.minus
                       /\ e < 0 => text.t = "fixed" /\ text.prefix # "+" /\ text.minus
                       /\ e = 0 => /\ text # Dash
                                   /\ text.t = "fixed" => text.prefix # "+" /\ ~text.minus

\* the saveCurrent controller's table shows a zero diff and then a loss
C17_Witness ==
    /\ reportRows # Null
    /\ variant = "saveCurrent"
    /\ Len(reportRows.table) = 3
    /\ reportRows.table[2].diff = diffFixed("", 0)
    /\ reportRows.table[3].diff.t = "fixed" /\ reportRows.table[3].diff.minus

\* C18: for the three example records and the range 2024-01-01..2024-01-03 the weight
\* summary shows average 69.75, n=2, min 69.5, max 70.0, and the row of 2024-01-02
\* shows the diff -0.5.
C18_SpecExample ==
    ( /\ reportRows # Null
      /\ reportRows.of = ExampleStore
      /\ reportRows.start = <<2024, 1, 1>> /\ reportRows.end = <<2024, 1, 3>> )
    => LET sw == reportRows.summaryWeight
       IN  /\ Len(reportRows.rows) = 3
           /\ sw # Dash
           /\ sw.avg = Str(6975)
           /\ sw.n = 2
           /\ "min" \in DOMAIN sw /\ sw.min = Str(6950)
           /\ "max" \in DOMAIN sw /\ sw.max = Str(7000)
           /\ \E k \in 1..Len(reportRows.table) :
                 /\ reportRows.table[k].date = <<2024, 1, 2>>
                 /\ reportRows.table[k].diff = diffFixed("", -50)

\* the CSV text the specification gives for a store
ExpectedCell(v) == IF IsNullish(v) THEN EmptyCell ELSE numberText(v.n)

ExpectedCsv(st) ==
    LET records == SortByDate(st)
    IN  [t |-> "csv", header |-> <<"date", "weight", "total_calorie">>,
         lines |-> [i \in 1..Len(records) |->
                      <<records[i].date, ExpectedCell(records[i].weight),
                        ExpectedCell(records[i].total_calorie)>>],
         trailingNewline |-> FALSE]

\* C19: whatever the store holds, an export that completes has written the header
\* date,weight,total_calorie and one line per stored record in ascending date
\* order, an empty cell for an absent weight or total_calorie, and no trailing
\* newline.
C19_CsvExport ==
    [][\A i \in 1..Len(queue) :
          (queue[i].k \in {"handleExport", "exportCSV"} /\ Resolve(i))
          => csvRows' = ExpectedCsv(store)
      ]_vars

\* C20: every completed render request hands the chart labels and a series of
\* equal length, one entry per record of the range in ascending date order; the
\* series is that of the metric chosen, and an entry is null exactly when the
\* record has no value for that metric.
C20_GraphSeries ==
    [][\A i \in 1..Len(queue) :
          (queue[i].k \in {"updateGraphH", "updateGraphS"} /\ Resolve(i))
          => LET records == SortByDate(InRangeRecords(queue[i].loc.start, queue[i].loc.end))
                 chart == graphRows'.chart
             IN  /\ graphRows' # Null
                 /\ graphRows'.rows = records
                 /\ chart # Null
                 /\ chart.label = graphState.tab
                 /\ Len(chart.labels) = Len(records)
                 /\ Len(chart.series) = Len(records)
                 /\ \A k \in 1..Len(records) :
                       LET v == MetricOf(records[k], graphState.tab)
                       IN  IF IsNullish(v) THEN chart.series[k] = Null
                           ELSE chart.series[k] = Num(v.n)
      ]_vars

\* C21: getRecord(d) resolves to null exactly when the store holds no record of
\* date d, and to the stored record of d otherwise, and leaves the store as it is;
\* seen at the two loaders, which keep what their getRecord resolved to.
C21_GetRecord ==
    [][\A i \in 1..Len(queue) :
          ( /\ queue[i].k \in {"loadDataForDate", "loadRecordForDate"}
            /\ Resolve(i) )
          => LET d == queue[i].date
                 found == {r \in store : r.date = d}
                 isLoadData == queue[i].k = "loadDataForDate"
             IN  /\ store' = store
                 /\ IF found = {}
                    THEN IF isLoadData
                         THEN isExistingRecord' = Bool(FALSE)
                              /\ currentRecord' = Rec(d, Null, Null)
                         ELSE currentRecord' = Null
                    ELSE /\ currentRecord' \in found
                         /\ isLoadData => isExistingRecord' = Bool(TRUE)
      ]_vars

\* a load of a date without record resolved to null while another date has a record
C21_Witness ==
    /\ variant = "saveCurrent" /\ listening
    /\ queue = <<>>
    /\ store # {} /\ ~Has(store, dateInput)
    /\ currentRecord = Null

\* C22: a night-mode save whose calorie input is 0 is accepted and writes
\* total_calorie 0; a night-mode save is rejected only when the input is not a
\* number or is negative.
C22_CalorieZeroAccepted ==
    [][((handleSave \/ saveCurrent) /\ mode = "night")
       => /\ calorieInput = Str(0)
             => /\ alertMsg' # "invalid-calorie"
                /\ Len(queue') > Len(queue)
                      => LET q == queue'[Len(queue')]
                         IN  IF q.op = "put" THEN q.rec.total_calorie = Num(0)
                             ELSE q.loc.calVal = Num(0)
          /\ alertMsg' = "invalid-calorie"
                => calorieInput = EmptyStr \/ calorieInput.n < 0
      ]_vars

\* C23: a night-mode handleSave leaves the weight stored for its date as it was
\* (absent stays absent), whatever was edited or switched before.
C23_NightSaveKeepsWeight ==
    [][\A i \in 1..Len(queue) :
          ( /\ queue[i].k = "handleSave"
            /\ ~queue[i].loc.isMorning
            /\ Resolve(i) )
          => WeightIn(store', queue[i].date) = WeightIn(store, queue[i].date)
      ]_vars

\* C25: a save writes under the selected date no calorie that the form loaded from
\* the record of another date: while the calorie input still holds what the load of
\* another date put there, a click on save sends no write that carries it.
C25_NoValueOfOtherDate ==
    [][ /\ ( /\ handleSave
             /\ calorieLoaded \notin {NoDate, currentDate}
             /\ TruthyStr(calorieInput) )
           => Len(queue') = Len(queue)
        /\ ( /\ saveCurrent /\ mode = "night"
             /\ calorieLoaded \notin {NoDate, dateInput}
             /\ TruthyStr(calorieInput) )
           => Len(queue') = Len(queue)
      ]_vars

\* C26: the record saveCurrent writes carries the validated value in the field of
\* the mode the save was clicked in, and in the other field what the store held
\* when the save read it, whether or not the mode was switched during the read.
C26_SaveCurrentClickMode ==
    [][\A i \in 1..Len(queue) :
          (queue[i].k = "saveCurrent" /\ Resolve(i))
          => LET q == queue[i]
                 next == queue'[Len(queue')].rec
             IN  IF q.loc.clickMode = "morning"
                 THEN /\ next.weight = q.loc.weightVal
                      /\ next.total_calorie = CalorieIn(store, q.date)
                 ELSE /\ next.total_calorie = q.loc.calVal
                      /\ next.weight = WeightIn(store, q.date)
      ]_vars

\* C27: when upsertRecord rejects inside handleSave, STATE.currentRecord and
\* STATE.isExistingRecord are what they were before the save was clicked.
C27_FailedSaveRestoresState ==
    [][\A i \in 1..Len(queue) :
          (queue[i].k = "handleSave" /\ Reject(i))
          => /\ currentRecord' = queue[i].loc.before
             /\ isExistingRecord' = isExistingRecord
      ]_vars

\* C24: when a handleSave write completes, the button shows the update message
\* exactly when the store held a record of the saved date before the write, and
\* else the first-save message of the mode the save was clicked in.
C24_UpdateMessage ==
    [][\A i \in 1..Len(queue) :
          (queue[i].k = "handleSave" /\ Resolve(i))
          => actionBtn' = IF Has(store, queue[i].date) THEN "saved-update"
                          ELSE IF queue[i].loc.isMorning THEN "saved-weight"
                          ELSE "saved-calorie"
      ]_vars

\* C28: once every pending timer of handleSave has fired, the action button shows
\* the default label of the current mode, not a success message.
C28_ButtonReverts ==
    (variant = "handleSave" /\ timers = <<>>) => actionBtn = defaultLabelH(mode)

\* C29: while the graph view is hidden and no updateGraph is still waiting for its
\* records, no chart exists: graphState.chart is null from closeGraph (once the
\* updateGraph calls started before it have completed) until the next openGraph.
C29_NoChartWhileHidden ==
    (/\ ~graphState.open
     /\ \A i \in 1..Len(queue) : queue[i].k \notin {"updateGraphH", "updateGraphS"})
    => (graphRows = Null \/ graphRows.chart = Null)

\* C30: a chart that a completed updateGraph draws is of the metric the user
\* selected last, by a click on a metric tab or by openGraph.
C30_TabTakesEffect ==
    [][\A i \in 1..Len(queue) :
          (/\ queue[i].k \in {"updateGraphH", "updateGraphS"}
           /\ Resolve(i)
           /\ graphRows' # Null
           /\ graphRows'.chart # Null)
          => graphRows'.chart.label = graphState.tab
      ]_vars

=============================================================================
